---- MODULE Spec2Model ----
(***************************************************************************)
(* Model of nemo-crtime.py (a Python 2 program: it uses `basestring`, and  *)
(* `/` on two integers is floor division).                                 *)
(*                                                                         *)
(* Python integers are unbounded and the NTFS tick counts need 64 bits,    *)
(* so integers are kept as sequences of decimal digits, most significant   *)
(* first, without leading zeros (the empty sequence is 0).                 *)
(***************************************************************************)
EXTENDS Integers, Sequences, FiniteSets, TLC

----------------------------------------------------------------------------
(* Unbounded naturals as decimal digit sequences.                          *)

RECURSIVE Strip(_)
Strip(d) == IF d = <<>> THEN <<>>
            ELSE IF Head(d) = 0 THEN Strip(Tail(d)) ELSE d

Front(d) == SubSeq(d, 1, Len(d) - 1)

RECURSIVE ToDigits(_)
ToDigits(n) == IF n = 0 THEN <<>> ELSE Append(ToDigits(n \div 10), n % 10)

\* d * m + a for a digit sequence d and small naturals m, a.
RECURSIVE MulAdd(_, _, _)
MulAdd(d, m, a) ==
    IF d = <<>> THEN ToDigits(a)
    ELSE LET v == d[Len(d)] * m + a
         IN  Append(MulAdd(Front(d), m, v \div 10), v % 10)

\* Long division of the digit sequence d by the small natural k, from the
\* most significant digit: quotient digits q and remainder r.
RECURSIVE DivRec(_, _, _, _)
DivRec(d, k, rem, acc) ==
    IF d = <<>> THEN [q |-> Strip(acc), r |-> rem]
    ELSE LET v == rem * 10 + Head(d)
         IN  DivRec(Tail(d), k, v % k, Append(acc, v \div k))

DivMod(d, k) == DivRec(d, k, 0, <<>>)

\* The small natural a digit sequence stands for.
RECURSIVE ToInt(_)
ToInt(d) == IF d = <<>> THEN 0 ELSE ToInt(Front(d)) * 10 + d[Len(d)]

\* -1, 0, 1 as a < b, a = b, a > b (both without leading zeros).
RECURSIVE CmpSame(_, _)
CmpSame(a, b) ==
    IF a = <<>> THEN 0
    ELSE IF Head(a) < Head(b) THEN -1
    ELSE IF Head(a) > Head(b) THEN 1
    ELSE CmpSame(Tail(a), Tail(b))

Cmp(a, b) == IF Len(a) < Len(b) THEN -1
             ELSE IF Len(a) > Len(b) THEN 1
             ELSE CmpSame(a, b)

\* a - b for a >= b.
RECURSIVE SubRec(_, _, _)
SubRec(a, b, borrow) ==
    IF a = <<>> THEN <<>>
    ELSE LET y == IF b = <<>> THEN 0 ELSE b[Len(b)]
             v == a[Len(a)] - y - borrow
             bb == IF b = <<>> THEN <<>> ELSE Front(b)
         IN  IF v < 0 THEN Append(SubRec(Front(a), bb, 1), v + 10)
             ELSE Append(SubRec(Front(a), bb, 0), v)

Sub(a, b) == Strip(SubRec(a, b, 0))

RECURSIVE AddRec(_, _, _)
AddRec(a, b, carry) ==
    IF a = <<>> /\ b = <<>> THEN ToDigits(carry)
    ELSE LET x == IF a = <<>> THEN 0 ELSE a[Len(a)]
             y == IF b = <<>> THEN 0 ELSE b[Len(b)]
             v == x + y + carry
             aa == IF a = <<>> THEN <<>> ELSE Front(a)
             bb == IF b = <<>> THEN <<>> ELSE Front(b)
         IN  Append(AddRec(aa, bb, v \div 10), v % 10)

Add(a, b) == AddRec(a, b, 0)

----------------------------------------------------------------------------
(* Python values that a creation time can be: None, an int, a float.       *)
(* A number is sign, integer magnitude and a fraction in milliseconds      *)
(* (always 0 for an int).                                                  *)

PyNone == [type |-> "NoneType", neg |-> FALSE, mag |-> <<>>, frac |-> 0]
PyInt(neg, mag) == [type |-> "int", neg |-> neg /\ mag # <<>>, mag |-> mag, frac |-> 0]
PyFloat(mag, frac) == [type |-> "float", neg |-> FALSE, mag |-> mag, frac |-> frac]

\* Python truth value: None, 0 and 0.0 are false.
Truthy(v) == v.type # "NoneType" /\ (v.mag # <<>> \/ v.frac # 0)

\* a - b on naturals, as a Python int.
IntSub(a, b) == IF Cmp(a, b) >= 0 THEN PyInt(FALSE, Sub(a, b))
                ELSE PyInt(TRUE, Sub(b, a))

\* Outcome of a Python call: a returned value or a raised exception.
Return(v) == [tag |-> "return", val |-> v, exc |-> "-"]
Raise(e) == [tag |-> "raise", val |-> PyNone, exc |-> e]

----------------------------------------------------------------------------
(* Library calls the program makes.                                        *)

\* struct.unpack('>Q', raw)[0]: exactly 8 bytes, most significant first.
RECURSIVE BigEndian(_)
BigEndian(raw) == IF raw = <<>> THEN <<>>
                  ELSE MulAdd(BigEndian(Front(raw)), 256, raw[Len(raw)])

RECURSIVE LittleEndian(_)
LittleEndian(raw) == IF raw = <<>> THEN <<>>
                     ELSE MulAdd(LittleEndian(Tail(raw)), 256, Head(raw))

unpack_Q(raw) == IF Len(raw) = 8 THEN Return(PyInt(FALSE, BigEndian(raw)))
                 ELSE Raise("struct.error")

\* Days since 1970-01-01 to the proleptic Gregorian date.
civil_from_days(days) ==
    LET z == days + 719468
        era == z \div 146097
        doe == z - era * 146097
        yoe == (doe - doe \div 1460 + doe \div 36524 - doe \div 146096) \div 365
        doy == doe - (365 * yoe + yoe \div 4 - yoe \div 100)
        mp == (5 * doy + 2) \div 153
        d == doy - (153 * mp + 2) \div 5 + 1
        m == IF mp < 10 THEN mp + 3 ELSE mp - 9
    IN  [y |-> yoe + era * 400 + (IF m <= 2 THEN 1 ELSE 0), m |-> m, d |-> d]

\* time.gmtime(v): the fraction is dropped, the seconds are split into whole
\* days since the epoch and the second of the day.
gmtime(v) ==
    LET dm == DivMod(v.mag, 86400)
        q == ToInt(dm.q)
        days == IF ~v.neg THEN q ELSE IF dm.r = 0 THEN -q ELSE -(q + 1)
        sod == IF ~v.neg \/ dm.r = 0 THEN dm.r ELSE 86400 - dm.r
        c == civil_from_days(days)
    IN  [tm_year |-> c.y, tm_mon |-> c.m, tm_mday |-> c.d,
         tm_hour |-> sod \div 3600, tm_min |-> (sod % 3600) \div 60,
         tm_sec |-> sod % 60, tm_wday |-> (days + 3) % 7]

NoTime == [tm_year |-> 0, tm_mon |-> 0, tm_mday |-> 0, tm_hour |-> 0,
           tm_min |-> 0, tm_sec |-> 0, tm_wday |-> 0]
NoText == [fmt |-> "-", tm |-> NoTime]

\* A formatted time: the format and the calendar fields it renders.
Text(fmt, tm) == [fmt |-> fmt, tm |-> tm]

\* time.strftime(fmt, tm) of Python 2: a year before 1900 is rejected
\* ("Values 100-1899 are always illegal").
strftime(fmt, tm) ==
    IF tm.tm_year < 1900
    THEN [tag |-> "raise", text |-> NoText, exc |-> "ValueError"]
    ELSE [tag |-> "return", text |-> Text(fmt, tm), exc |-> "-"]

\* time.ctime(v): asctime of the local time (the zone is taken to be UTC);
\* the C library call has no lower limit on the year.
ctime(v) == Text("ctime", gmtime(v))

----------------------------------------------------------------------------
(* What the system answers: `df -T path`, `getfattr ... path`, os.stat.     *)

Paths == {"/mnt/a", "/mnt/b"}

DfHeader == <<"Filesystem", "Type", "1K-blocks", "Used", "Available", "Use%", "Mounted", "on">>
DfOk(type) == [ok |-> TRUE, exc |-> "-",
               out |-> <<DfHeader, <<"/dev/sdb1", type, "1000", "10", "990", "1%", "/mnt">>>>]
DfFail(e) == [ok |-> FALSE, exc |-> e, out |-> <<>>]
\* NTFS through FUSE, FAT32, another file system; a path df cannot resolve;
\* no df executable.
DfOutcomes == {DfOk("fuseblk"), DfOk("vfat"), DfOk("ext4"),
               DfFail("CalledProcessError"), DfFail("OSError")}

\* Raw attribute values with the tick count each one encodes.
TickVectors == {
    [raw |-> <<0, 0, 0, 0, 0, 0, 0, 0>>, ticks |-> <<>>],
    [raw |-> <<0, 0, 0, 0, 0, 152, 150, 127>>, ticks |-> <<9,9,9,9,9,9,9>>],
    [raw |-> <<0, 0, 0, 0, 0, 152, 150, 128>>, ticks |-> <<1,0,0,0,0,0,0,0>>],
    [raw |-> <<1, 79, 55, 59, 253, 224, 63, 255>>,
     ticks |-> <<9,4,3,5,4,8,4,7,9,9,9,9,9,9,9,9,9>>],
    [raw |-> <<1, 79, 55, 59, 253, 224, 64, 0>>,
     ticks |-> <<9,4,3,5,4,8,4,8,0,0,0,0,0,0,0,0,0>>],
    [raw |-> <<1, 157, 177, 222, 213, 62, 127, 255>>,
     ticks |-> <<1,1,6,4,4,4,7,3,5,9,9,9,9,9,9,9,9,9>>],
    [raw |-> <<1, 157, 177, 222, 213, 62, 128, 0>>,
     ticks |-> <<1,1,6,4,4,4,7,3,6,0,0,0,0,0,0,0,0,0>>],
    [raw |-> <<1, 157, 177, 222, 213, 215, 22, 127>>,
     ticks |-> <<1,1,6,4,4,4,7,3,6,0,0,9,9,9,9,9,9,9>>],
    [raw |-> <<1, 218, 23, 71, 198, 127, 214, 135>>,
     ticks |-> <<1,3,3,4,4,4,7,3,6,0,0,1,2,3,4,5,6,7>>],
    [raw |-> <<255, 255, 255, 255, 255, 255, 255, 255>>,
     ticks |-> <<1,8,4,4,6,7,4,4,0,7,3,7,0,9,5,5,1,6,1,5>>] }

XattrOk(raw) == [ok |-> TRUE, exc |-> "-", out |-> raw]
XattrFail(e) == [ok |-> FALSE, exc |-> e, out |-> <<>>]
\* A well-formed attribute; an absent or unreadable one (getfattr exits
\* non-zero); a malformed one (empty, 7 bytes, 9 bytes).
XattrOutcomes == {XattrOk(v.raw) : v \in TickVectors}
                 \cup {XattrFail("CalledProcessError")}
                 \cup {XattrOk(<<>>), XattrOk(<<1, 157, 177, 222, 213, 62, 128>>),
                       XattrOk(<<0, 1, 157, 177, 222, 213, 62, 128, 0>>)}

NoStat == [st_ctime |-> PyNone, st_mtime |-> PyNone, st_atime |-> PyNone]
StatOk(c, m, a) == [ok |-> TRUE, exc |-> "-",
                    st |-> [st_ctime |-> c, st_mtime |-> m, st_atime |-> a]]
StatFail(e) == [ok |-> FALSE, exc |-> e, st |-> NoStat]
StatOutcomes == {
    StatOk(PyFloat(<<>>, 0), PyFloat(<<5>>, 0), PyFloat(<<7>>, 500)),
    StatOk(PyFloat(<<1,7,0,0,0,0,0,0,0,0>>, 250), PyFloat(<<1,7,0,0,0,0,0,1,0,0>>, 0),
           PyFloat(<<1,7,0,0,0,0,0,2,0,0>>, 125)),
    StatFail("OSError") }

----------------------------------------------------------------------------
(* The functions of nemo-crtime.py.                                        *)

NEMO_DATE_FORMAT_LOCALE == 0
NEMO_DATE_FORMAT_ISO == 1
NEMO_DATE_FORMAT_INFORMAL == 2
DateFormats == {NEMO_DATE_FORMAT_LOCALE, NEMO_DATE_FORMAT_ISO, NEMO_DATE_FORMAT_INFORMAL}

FsReturn(s) == [tag |-> "return", fs |-> s, exc |-> "-"]
FsRaise(e) == [tag |-> "raise", fs |-> "-", exc |-> e]

\* get_file_system(path), given what `df -T path` answers: the second word
\* of the last line of the output.  Every caller passes a str, so the
\* assertion on the type of path holds.
get_file_system_swallow(df) ==
    IF ~df.ok \/ df.out = <<>> THEN FsReturn("unknown")
    ELSE FsReturn(df.out[Len(df.out)][2])

get_file_system(df) ==
    IF ~df.ok THEN FsRaise(df.exc)
    ELSE IF df.out = <<>> THEN FsRaise("IndexError")
    ELSE LET last == df.out[Len(df.out)]
         IN  IF Len(last) < 2 THEN FsRaise("IndexError") ELSE FsReturn(last[2])

\* get_vfat_crtime(path), given what os.stat(path) answers.
get_vfat_crtime_mtime(stat) ==
    IF ~stat.ok THEN Raise(stat.exc) ELSE Return(stat.st.st_mtime)

get_vfat_crtime(stat) ==
    IF ~stat.ok THEN Raise(stat.exc) ELSE Return(stat.st.st_ctime)

TICKS_PER_SECOND == 10000000
\* 11644473600, the seconds from 1601-01-01 to 1970-01-01.
EPOCH_OFFSET == <<1, 1, 6, 4, 4, 4, 7, 3, 6, 0, 0>>

\* get_ntfs_crtime(path), given what getfattr answers.
get_ntfs_crtime_little(xattr) ==
    IF ~xattr.ok THEN Raise(xattr.exc)
    ELSE IF Len(xattr.out) # 8 THEN Raise("struct.error")
    ELSE Return(IntSub(DivMod(LittleEndian(xattr.out), TICKS_PER_SECOND).q, EPOCH_OFFSET))

get_ntfs_crtime_default(xattr) ==
    IF ~xattr.ok \/ Len(xattr.out) # 8 THEN Return(PyInt(FALSE, <<>>))
    ELSE Return(IntSub(DivMod(BigEndian(xattr.out), TICKS_PER_SECOND).q, EPOCH_OFFSET))

get_ntfs_crtime(xattr) ==
    IF ~xattr.ok THEN Raise(xattr.exc)
    ELSE LET u == unpack_Q(xattr.out)
         IN  IF u.tag = "raise" THEN u
             ELSE Return(IntSub(DivMod(u.val.mag, TICKS_PER_SECOND).q, EPOCH_OFFSET))

\* The branch get_crtime takes for a file system type.
StrategyFallback(fs) == IF fs = "fuseblk" THEN "ntfs" ELSE "vfat"

Strategy(fs) == IF fs = "fuseblk" THEN "ntfs"
                ELSE IF fs = "vfat" THEN "vfat"
                ELSE "none"

\* What is left of a call once get_crtime is over.
NoResult == [ret |-> "-", exc |-> "-", stdout |-> NoText, attrs |-> <<>>, logged |-> <<>>]

\* The interactive caller after get_crtime(path).
main_tail(out) ==
    IF out.tag = "raise" THEN [NoResult EXCEPT !.ret = "exit1", !.exc = out.exc]
    ELSE IF ~Truthy(out.val)
    THEN [NoResult EXCEPT !.ret = "exit1", !.exc = "RuntimeError: Unsupported filesystem"]
    ELSE [NoResult EXCEPT !.ret = "exit0", !.stdout = ctime(out.val)]

\* update_file_info after get_crtime(filename); timeformat is the
\* 'date-format' setting.
\* The except clause: the traceback is printed, nothing is raised.
on_exception_reraise(exc) ==
    [NoResult EXCEPT !.ret = "raise", !.exc = exc, !.logged = <<exc>>]

on_exception(exc) == [NoResult EXCEPT !.ret = "COMPLETE", !.logged = <<exc>>]

update_tail(out, timeformat) ==
    IF out.tag = "raise" THEN on_exception(out.exc)
    ELSE IF out.val = PyNone THEN [NoResult EXCEPT !.ret = "COMPLETE"]
    ELSE LET struct_time == gmtime(out.val)
             formatted == IF timeformat = NEMO_DATE_FORMAT_LOCALE
                          THEN strftime("%c", struct_time)
                          ELSE strftime("%Y-%m-%d %H:%M:%S", struct_time)
         IN  IF formatted.tag = "raise"
             THEN [NoResult EXCEPT !.ret = "raise", !.exc = formatted.exc]
             ELSE [NoResult EXCEPT !.ret = "COMPLETE",
                       !.attrs = <<[name |-> "creation_time", value |-> formatted.text]>>]

----------------------------------------------------------------------------
(* State.                                                                  *)

Callers == {1, 2}

VARIABLES
    mount,   \* path -> what `df -T path` answers now (the mount table)
    xattr,   \* path -> what getfattr answers for system.ntfs_crtime_be
    meta,    \* path -> what os.stat answers
    call,    \* caller -> the call it is in, or the last one it made
    failed   \* paths for which update_file_info has logged an exception

vars == <<mount, xattr, meta, call, failed>>

NoOutcome == [tag |-> "none", val |-> PyNone, exc |-> "-"]
NoEnv == [df |-> DfFail("-"), xattr |-> XattrFail("-"), stat |-> StatFail("-")]
EnvOf(p) == [df |-> mount[p], xattr |-> xattr[p], stat |-> meta[p]]

\* pc: "idle" (no call yet), "classify" (before the df query), "extract"
\* (file system known, before the read), "done".
\* reads: the system queries the call has made, in order.
\* env0: what the system answered for the path when the call began.
\* current: the path's state has not changed since the call began.
\* moved: the path was remounted between the df query and the read.
\* overlap: another caller was inside a call during this one.
\* after: update_file_info had logged an exception for another path before.
Idle == [pc |-> "idle", kind |-> "-", path |-> "-", fs |-> "-", reads |-> <<>>,
         crtime |-> NoOutcome, res |-> NoResult,
         current |-> FALSE, moved |-> FALSE, env0 |-> NoEnv, overlap |-> FALSE, after |-> FALSE]

Free(c) == call[c].pc \in {"idle", "done"}
Busy(c) == ~Free(c)

Started(c, kind, p) ==
    [Idle EXCEPT !.pc = "classify", !.kind = kind, !.path = p,
                 !.current = TRUE, !.env0 = EnvOf(p),
                 !.overlap = \E d \in Callers \ {c} : Busy(d),
                 !.after = (failed \ {p} # {})]

\* A caller that begins while c is inside a call overlaps it.
Overlapped(c) ==
    [d \in Callers |-> IF d # c /\ Busy(d) THEN [call[d] EXCEPT !.overlap = TRUE]
                       ELSE call[d]]

\* The file system type the extraction step dispatches on: the local `fs`.
DispatchFsReclassify(c) == get_file_system(mount[call[c].path]).fs

DispatchFsShared(c) ==
    IF \E d \in Callers \ {c} : call[d].fs # "-"
    THEN call[CHOOSE d \in Callers \ {c} : call[d].fs # "-"].fs
    ELSE call[c].fs

DispatchFs(c) == call[c].fs

\* The query one extraction makes.
ReadsOf(strategy) == IF strategy = "ntfs" THEN <<"getfattr">> ELSE <<"stat">>

\* The rest of the caller once get_crtime has ended with `out`.
Finished(c, out, reads, timeformat) ==
    LET k == call[c].kind
    IN  [call[c] EXCEPT !.pc = "done", !.crtime = out, !.reads = reads,
             !.res = IF k = "main" THEN main_tail(out) ELSE update_tail(out, timeformat)]

Logged(c, out) ==
    IF call[c].kind = "embed" /\ out.tag = "raise" THEN failed \cup {call[c].path}
    ELSE failed

----------------------------------------------------------------------------
(* Actions.                                                                *)

\* __main__ without an argument: the error message and exit status 1.
MainNoArg(c) ==
    /\ Free(c)
    /\ call' = [call EXCEPT ![c] =
                   [Idle EXCEPT !.pc = "done", !.kind = "main",
                       !.res = [NoResult EXCEPT !.ret = "exit1",
                                    !.stdout = Text("ERROR: need one command line argument: filename", NoTime)]]]
    /\ UNCHANGED <<mount, xattr, meta, failed>>

\* __main__ with a path: up to the df query of get_crtime.
BeginMain(c, p) ==
    /\ Free(c)
    /\ call' = [Overlapped(c) EXCEPT ![c] = Started(c, "main", p)]
    /\ UNCHANGED <<mount, xattr, meta, failed>>

\* update_file_info(fileinfo): a URI that is not file:// is left alone.
BeginEmbed(c, p, scheme) ==
    /\ Free(c)
    /\ call' = IF scheme = "file"
               THEN [Overlapped(c) EXCEPT ![c] = Started(c, "embed", p)]
               ELSE [call EXCEPT ![c] =
                        [Idle EXCEPT !.pc = "done", !.kind = "embed", !.path = p,
                                     !.res = [NoResult EXCEPT !.ret = "COMPLETE"]]]
    /\ UNCHANGED <<mount, xattr, meta, failed>>

\* get_crtime: fs = get_file_system(path), then the branch on fs.  A raised
\* exception and an unsupported file system end get_crtime here.
Classify(c) ==
    /\ call[c].pc = "classify"
    /\ LET r == get_file_system(mount[call[c].path])
           reads == Append(call[c].reads, "df")
       IN  \E timeformat \in DateFormats :
             IF r.tag = "raise"
             THEN /\ call' = [call EXCEPT ![c] = Finished(c, Raise(r.exc), reads, timeformat)]
                  /\ failed' = Logged(c, Raise(r.exc))
             ELSE IF Strategy(r.fs) = "none"
             THEN /\ call' = [call EXCEPT ![c] =
                                 [Finished(c, Return(PyNone), reads, timeformat) EXCEPT !.fs = r.fs]]
                  /\ failed' = failed
             ELSE /\ call' = [call EXCEPT ![c].pc = "extract", ![c].fs = r.fs,
                                          ![c].reads = reads]
                  /\ failed' = failed
    /\ UNCHANGED <<mount, xattr, meta>>

\* get_crtime: get_ntfs_crtime(path) or get_vfat_crtime(path), and the rest
\* of the caller.
Extract(c) ==
    /\ call[c].pc = "extract"
    /\ LET p == call[c].path
           strategy == Strategy(DispatchFs(c))
           out == IF strategy = "ntfs" THEN get_ntfs_crtime(xattr[p])
                  ELSE get_vfat_crtime(meta[p])
           reads == call[c].reads \o ReadsOf(strategy)
       IN  /\ \E timeformat \in DateFormats :
                call' = [call EXCEPT ![c] = Finished(c, out, reads, timeformat)]
           /\ failed' = Logged(c, out)
    /\ UNCHANGED <<mount, xattr, meta>>

\* The volume behind a path is mounted, unmounted or replaced.
Remount(p, d) ==
    /\ mount[p] # d
    /\ mount' = [mount EXCEPT ![p] = d]
    /\ call' = [c \in Callers |->
                  IF call[c].path = p
                  THEN [call[c] EXCEPT !.current = FALSE, !.env0 = NoEnv,
                            !.moved = (@ \/ call[c].pc = "extract")]
                  ELSE call[c]]
    /\ UNCHANGED <<xattr, meta, failed>>

\* The file at a path gets another creation-time attribute (it is replaced,
\* or the attribute is set or removed).
Rewrite(p, x) ==
    /\ xattr[p] # x
    /\ xattr' = [xattr EXCEPT ![p] = x]
    /\ call' = [c \in Callers |->
                  IF call[c].path = p
                  THEN [call[c] EXCEPT !.current = FALSE, !.env0 = NoEnv]
                  ELSE call[c]]
    /\ UNCHANGED <<mount, meta, failed>>

Init ==
    /\ mount \in [Paths -> DfOutcomes]
    /\ \E x \in XattrOutcomes, s \in StatOutcomes :
          /\ xattr = [p \in Paths |-> IF p = "/mnt/a" THEN x
                                      ELSE XattrFail("CalledProcessError")]
          /\ meta = [p \in Paths |-> IF p = "/mnt/a" THEN s
                                     ELSE StatOk(PyFloat(<<8,6,4,0,0>>, 0), PyFloat(<<9>>, 0), PyFloat(<<9>>, 0))]
    /\ call = [c \in Callers |-> Idle]
    /\ failed = {}

\* One process making one call after another.
Next ==
    \/ MainNoArg(1)
    \/ \E p \in Paths : BeginMain(1, p)
    \/ \E p \in Paths, scheme \in {"file", "smb"} : BeginEmbed(1, p, scheme)
    \/ Classify(1)
    \/ Extract(1)
    \/ \E p \in Paths, d \in DfOutcomes : Remount(p, d)

Spec == Init /\ [][Next]_vars

\* Two interactive callers (processes) at once.
XattrConc == {XattrOk(<<1, 218, 23, 71, 198, 127, 214, 135>>), XattrFail("CalledProcessError")}
DfConc == {DfOk("fuseblk"), DfOk("vfat"), DfOk("ext4"), DfFail("CalledProcessError")}

InitConc ==
    /\ mount \in [Paths -> DfConc]
    /\ xattr = [p \in Paths |-> IF p = "/mnt/a"
                                THEN XattrOk(<<1, 218, 23, 71, 198, 127, 214, 135>>)
                                ELSE XattrFail("CalledProcessError")]
    /\ meta = [p \in Paths |-> IF p = "/mnt/a" THEN StatFail("OSError")
                               ELSE StatOk(PyFloat(<<8,6,4,0,0>>, 0), PyFloat(<<9>>, 0), PyFloat(<<9>>, 0))]
    /\ call = [c \in Callers |-> Idle]
    /\ failed = {}

NextConc ==
    \/ \E c \in Callers, p \in Paths : BeginMain(c, p)
    \/ \E c \in Callers : Classify(c)
    \/ \E c \in Callers : Extract(c)
    \/ \E p \in Paths, d \in DfConc : Remount(p, d)
    \/ \E p \in Paths, x \in XattrConc : Rewrite(p, x)

SpecConc == InitConc /\ [][NextConc]_vars

----------------------------------------------------------------------------
(* Properties.                                                             *)

\* get_crtime has run to its end in caller c's last call.
Ended(c) == call[c].pc = "done" /\ call[c].crtime.tag # "none"
Supported == {"fuseblk", "vfat"}
TicksOf(raw) == (CHOOSE v \in TickVectors : v.raw = raw).ticks
EpochTicks == <<1,1,6,4,4,4,7,3,6,0,0,0,0,0,0,0,0,0>>

\* C1: once the classifier has returned a type other than 'fuseblk' and
\* 'vfat', get_crtime is over: it has returned None, raised nothing, and the
\* df query is the only query it made -- whatever getfattr and os.stat would
\* have answered for the path.
C1_UnsupportedIsNone ==
    \A c \in Callers :
        (call[c].fs # "-" /\ call[c].fs \notin Supported)
        => /\ call[c].pc = "done"
           /\ call[c].crtime = Return(PyNone)
           /\ call[c].reads = <<"df">>

C1_Witness ==
    \E c \in Callers :
        /\ Ended(c) /\ call[c].fs = "ext4" /\ call[c].crtime = Return(PyNone)
        /\ xattr[call[c].path] = XattrOk(<<1, 157, 177, 222, 213, 62, 128, 0>>)
        /\ meta[call[c].path].ok

\* C2: for a well-formed attribute holding the tick count N, get_ntfs_crtime
\* returns the int t with (t + 11644473600) * 10^7 <= N < (t + 11644473600 + 1) * 10^7,
\* that is N div 10^7 - 11644473600; N = 116444736000000000 gives 0 and a
\* smaller N gives a negative int.
C2_NtfsDecode ==
    \A c \in Callers :
        (Ended(c) /\ call[c].fs = "fuseblk" /\ xattr[call[c].path].ok
                  /\ Len(xattr[call[c].path].out) = 8)
        => LET N == TicksOf(xattr[call[c].path].out)
               out == call[c].crtime
               t == out.val
               \* t + 11644473600
               q == IF t.neg THEN Sub(EPOCH_OFFSET, t.mag) ELSE Add(t.mag, EPOCH_OFFSET)
           IN  /\ out.tag = "return"
               /\ t.type = "int" /\ t.frac = 0
               /\ t.neg => Cmp(t.mag, EPOCH_OFFSET) <= 0
               /\ Cmp(MulAdd(q, 10000000, 0), N) <= 0
               /\ Cmp(N, MulAdd(q, 10000000, 10000000)) < 0
               /\ (N = EpochTicks => t = PyInt(FALSE, <<>>))
               /\ (Cmp(N, EpochTicks) < 0 <=> t.neg)

C2_Witness ==
    \E c \in Callers :
        /\ Ended(c) /\ call[c].fs = "fuseblk"
        /\ xattr[call[c].path] = XattrOk(<<1, 157, 177, 222, 213, 62, 127, 255>>)
        /\ call[c].crtime = Return(PyInt(TRUE, <<1>>))

\* C3: on 'vfat', when os.stat succeeds, get_crtime returns the st_ctime
\* that os.stat reports, unchanged, and reads no extended attribute.
C3_VfatPassthrough ==
    \A c \in Callers :
        (Ended(c) /\ call[c].fs = "vfat" /\ meta[call[c].path].ok)
        => /\ call[c].crtime = Return(meta[call[c].path].st.st_ctime)
           /\ call[c].reads = <<"df", "stat">>

C3_Witness ==
    \E c \in Callers :
        /\ Ended(c) /\ call[c].fs = "vfat"
        /\ call[c].crtime = Return(PyFloat(<<1,7,0,0,0,0,0,0,0,0>>, 250))
        /\ xattr[call[c].path].ok

\* C4: when df fails, get_crtime raises df's error: it returns neither None
\* nor an instant, and makes no query after the failed one.
C4_ClassificationErrorPropagates ==
    \A c \in Callers :
        (call[c].current /\ ~mount[call[c].path].ok)
        => /\ call[c].pc # "extract"
           /\ call[c].fs = "-"
           /\ call[c].pc = "done"
                => /\ call[c].crtime = Raise(mount[call[c].path].exc)
                   /\ call[c].reads = <<"df">>

C4_Witness ==
    \E c \in Callers :
        /\ Ended(c) /\ call[c].current
        /\ mount[call[c].path] = DfFail("CalledProcessError")
        /\ call[c].crtime = Raise("CalledProcessError")

\* C5: on 'fuseblk', when the attribute is absent, unreadable or not 8 bytes
\* long, get_crtime raises; it returns neither an instant nor None.
C5_AttributeErrorPropagates ==
    \A c \in Callers :
        (Ended(c) /\ call[c].fs = "fuseblk"
                  /\ (~xattr[call[c].path].ok \/ Len(xattr[call[c].path].out) # 8))
        => /\ call[c].crtime.tag = "raise"
           /\ call[c].crtime.exc = IF xattr[call[c].path].ok THEN "struct.error"
                                   ELSE xattr[call[c].path].exc
           /\ call[c].reads = <<"df", "getfattr">>

C5_Witness ==
    \E c \in Callers :
        /\ Ended(c) /\ call[c].fs = "fuseblk"
        /\ xattr[call[c].path] = XattrOk(<<1, 157, 177, 222, 213, 62, 128>>)
        /\ call[c].crtime = Raise("struct.error")

Unsupported == "RuntimeError: Unsupported filesystem"

\* C6: the interactive caller, after get_crtime: on None it fails with
\* 'Unsupported filesystem' and a non-zero exit status; on every instant it
\* prints the instant and does not report 'Unsupported filesystem'; on an
\* exception of get_crtime, that exception is what ends the program.
C6_InteractiveThreeWay ==
    \A c \in Callers :
        (Ended(c) /\ call[c].kind = "main")
        => LET out == call[c].crtime
               res == call[c].res
           IN  /\ out = Return(PyNone) => (res.ret = "exit1" /\ res.exc = Unsupported)
               /\ (out.tag = "return" /\ out.val # PyNone)
                    => /\ res.ret = "exit0"
                       /\ res.stdout = ctime(out.val)
                       /\ res.exc # Unsupported
               /\ out.tag = "raise" => (res.ret = "exit1" /\ res.exc = out.exc)

\* C7: when get_crtime raises inside update_file_info, the exception is
\* logged (once) and not raised again, no attribute is added and COMPLETE is
\* returned; a call whose get_crtime does not raise logs nothing, also after
\* failures on other files.
C7_EmbeddingSwallowsErrors ==
    \A c \in Callers :
        (Ended(c) /\ call[c].kind = "embed")
        => /\ call[c].crtime.tag = "raise"
                => call[c].res = [NoResult EXCEPT !.ret = "COMPLETE",
                                      !.logged = <<call[c].crtime.exc>>]
           /\ call[c].crtime.tag # "raise" => call[c].res.logged = <<>>
           /\ call[c].crtime = Return(PyNone)
                => call[c].res = [NoResult EXCEPT !.ret = "COMPLETE"]

C7_Witness ==
    \E c \in Callers :
        /\ Ended(c) /\ call[c].kind = "embed" /\ call[c].after
        /\ call[c].crtime.tag = "raise"
        /\ call[c].res.ret = "COMPLETE"

\* C8: a get_crtime call makes the df query first and once; then at most one
\* read: getfattr exactly when df's answer was 'fuseblk', os.stat exactly
\* when it was 'vfat' -- the answer the classifier gave, whatever the mount
\* table says by then; nothing is queried twice.
C8_QueryOrder ==
    \A c \in Callers :
        /\ call[c].pc = "classify" => call[c].reads = <<>>
        /\ call[c].pc = "extract"
             => (call[c].reads = <<"df">> /\ call[c].fs \in Supported)
        /\ Ended(c)
             => call[c].reads =
                   IF call[c].fs = "fuseblk" THEN <<"df", "getfattr">>
                   ELSE IF call[c].fs = "vfat" THEN <<"df", "stat">>
                   ELSE <<"df">>

C8_Witness ==
    \E c \in Callers :
        /\ Ended(c) /\ call[c].moved /\ call[c].fs = "fuseblk"
        /\ mount[call[c].path] = DfOk("vfat")
        /\ call[c].reads = <<"df", "getfattr">>

\* C9: two calls on the same path, one after the other or interleaved, made
\* while the path's mount, attribute and metadata stay as they are, see the
\* same file system type and end the same way; and the calls leave the
\* path's state as it was when they began.
C9_Stateless ==
    /\ \A c \in Callers :
          call[c].current => EnvOf(call[c].path) = call[c].env0
    /\ \A c, d \in Callers :
          (Ended(c) /\ Ended(d) /\ call[c].current /\ call[d].current
             /\ call[c].path = call[d].path)
          => (call[c].fs = call[d].fs /\ call[c].crtime = call[d].crtime)

C9_Witness ==
    \E c, d \in Callers :
        /\ c # d /\ Ended(c) /\ Ended(d) /\ call[c].current /\ call[d].current
        /\ call[c].path = call[d].path /\ call[c].overlap
        /\ call[c].crtime = Return(PyInt(FALSE, <<1,7,0,0,0,0,0,0,0,0>>))

\* C10: update_file_info adds 'creation_time' if and only if the scheme is
\* 'file' and get_crtime returned an instant; it adds it once; for another
\* scheme nothing is queried.
C10_AttributeIff ==
    \A c \in Callers :
        (call[c].pc = "done" /\ call[c].kind = "embed")
        => /\ call[c].res.attrs # <<>>
                <=> (call[c].crtime.tag = "return" /\ call[c].crtime.val # PyNone)
           /\ Len(call[c].res.attrs) <= 1
           /\ call[c].crtime.tag = "none" => call[c].reads = <<>>

====
